---- MODULE Spec2Model ----
(***************************************************************************)
(* A model of the Api class of @bowtie/api (src/src/Api.js): construction  *)
(* (merge, validate, init, sanitize), the URL builder, the authorization   *)
(* resolver, the request dispatcher and the middleware / event pipeline.   *)
(*                                                                         *)
(* JavaScript strings are sequences of one-character strings, so that      *)
(* split, substr, replace, trim, concatenation and base64 are computed     *)
(* character by character as the code computes them.  The other JavaScript *)
(* values the code meets are one-element sequences holding a word of more  *)
(* than one character (<<"null">>, <<"undefined">>, ...).                  *)
(***************************************************************************)
EXTENDS Integers, Sequences, FiniteSets, TLC

VARIABLES
    status,       \* "none" before new Api(..), then "ready" or "threw"
    thrown,       \* the error of the last operation that threw, or NoError
    settings,     \* this.settings
    root,         \* this.root
    stage,        \* this.stage
    prefix,       \* this.prefix
    version,      \* this.version
    middlewares,  \* this.middlewares
    listeners,    \* the EventEmitter2 registry: event name -> listeners
    token,        \* this.token
    customAuth,   \* this.customAuth
    store,        \* what the application's providers read (session store)
    lastAuthorize,\* the last authorize(args) call and whether it threw
    calls,        \* the calls made so far, each with its dispatched request
    urls,         \* the values returned by the baseUrl() calls made so far
    built         \* the last buildUrl(x) / buildUrl('/' + x) pair computed

vars == <<status, thrown, settings, root, stage, prefix, version, middlewares,
          listeners, token, customAuth, store, lastAuthorize, calls, urls, built>>

---------------------------------------------------------------------------
(* Bounds of the model *)

MaxTailLen == 2
MaxSegLen == 1
MaxPathLen == 1
MaxQueries == 2
MaxCalls == 2
MaxMiddlewares == 2
MaxListeners == 2

---------------------------------------------------------------------------
(* JavaScript values *)

Undefined == <<"undefined">>
Null == <<"null">>
Absent == <<"absent">>
JTrue == <<"true">>
JFalse == <<"false">>
NumberVal == <<"number">>
Fn == <<"function">>

NonStrings == {Undefined, Null, Absent, JTrue, JFalse, NumberVal, Fn}

IsString(v) == v \notin NonStrings

TypeOf(v) ==
    IF v = Undefined \/ v = Absent THEN "undefined"
    ELSE IF v = Null THEN "object"
    ELSE IF v = JTrue \/ v = JFalse THEN "boolean"
    ELSE IF v = NumberVal THEN "number"
    ELSE IF v = Fn THEN "function"
    ELSE "string"

Truthy(v) == v \notin {Undefined, Null, Absent, JFalse, <<>>}

RECURSIVE SeqsUpTo(_, _)
SeqsUpTo(alphabet, n) ==
    IF n = 0 THEN {<<>>}
    ELSE LET shorter == SeqsUpTo(alphabet, n - 1)
         IN shorter \cup {Append(s, c) : s \in shorter, c \in alphabet}

StartsWith(s, p) == Len(s) >= Len(p) /\ SubSeq(s, 1, Len(p)) = p

\* String.prototype.split(sep) for a non-empty separator
RECURSIVE SplitFrom(_, _, _)
SplitFrom(s, sep, acc) ==
    IF s = <<>> THEN <<acc>>
    ELSE IF StartsWith(s, sep)
         THEN <<acc>> \o SplitFrom(SubSeq(s, Len(sep) + 1, Len(s)), sep, <<>>)
         ELSE SplitFrom(Tail(s), sep, Append(acc, Head(s)))

Split(s, sep) == SplitFrom(s, sep, <<>>)

\* str.replace(/\//g, '')
RECURSIVE RemoveSlashes(_)
RemoveSlashes(s) ==
    IF s = <<>> THEN <<>>
    ELSE IF Head(s) = "/" THEN RemoveSlashes(Tail(s))
         ELSE <<Head(s)>> \o RemoveSlashes(Tail(s))

Whitespace == {" ", "\t", "\n"}

RECURSIVE TrimStart(_)
TrimStart(s) ==
    IF s # <<>> /\ Head(s) \in Whitespace THEN TrimStart(Tail(s)) ELSE s

RECURSIVE TrimEnd(_)
TrimEnd(s) ==
    IF s # <<>> /\ s[Len(s)] \in Whitespace
    THEN TrimEnd(SubSeq(s, 1, Len(s) - 1)) ELSE s

Trim(s) == TrimEnd(TrimStart(s))

---------------------------------------------------------------------------
(* String constants of the code and of its tests *)

Https == <<"h", "t", "t", "p", "s">>
Http == <<"h", "t", "t", "p">>
SchemeSep == <<":", "/", "/">>
ApiExampleCom ==
    <<"a", "p", "i", ".", "e", "x", "a", "m", "p", "l", "e", ".", "c", "o", "m">>
Dev == <<"d", "e", "v">>
ApiSeg == <<"a", "p", "i">>
V1 == <<"v", "1">>
AppJson == <<"a", "p", "p", "l", "i", "c", "a", "t", "i", "o", "n", "/",
             "j", "s", "o", "n">>
StrGET == <<"G", "E", "T">>
StrNone == <<"N", "o", "n", "e">>
StrBasic == <<"B", "a", "s", "i", "c">>
StrBearer == <<"B", "e", "a", "r", "e", "r">>
StrCustom == <<"C", "u", "s", "t", "o", "m">>

LowerOf ==
    [c \in {"B", "C", "N", "S"} |->
        CASE c = "B" -> "b" [] c = "C" -> "c" [] c = "N" -> "n" [] c = "S" -> "s"]

UpperOf ==
    [c \in {"b", "c", "n", "s"} |->
        CASE c = "b" -> "B" [] c = "c" -> "C" [] c = "n" -> "N" [] c = "s" -> "S"]

ToUpper(c) == IF c \in DOMAIN UpperOf THEN UpperOf[c] ELSE c
ToLower(c) == IF c \in DOMAIN LowerOf THEN LowerOf[c] ELSE c

\* capitalizeWord of @bowtie/utils: first character upper case, rest lower case
capitalizeWord(w) ==
    IF w = <<>> THEN w
    ELSE <<ToUpper(w[1])>> \o [i \in 1..(Len(w) - 1) |-> ToLower(w[i + 1])]

---------------------------------------------------------------------------
(* Header maps and header sources (a literal map or a zero-argument provider) *)

NoHeaders == [k \in {} |-> <<>>]

DefaultHeaders == [k \in {"Content-Type"} |-> AppJson]

\* deepmerge of two header maps: key by key, the source wins
MergeHeaders(target, source) ==
    [k \in (DOMAIN target) \cup (DOMAIN source) |->
        IF k \in DOMAIN source THEN source[k] ELSE target[k]]

AbsentHeaders == [kind |-> "absent", map |-> NoHeaders]
LiteralHeaders(m) == [kind |-> "map", map |-> m]
SharedProvider == [kind |-> "shared", map |-> NoHeaders]
FreshProvider == [kind |-> "fresh", map |-> NoHeaders]

IsProvider(h) == h.kind \in {"shared", "fresh"}

---------------------------------------------------------------------------
(* Settings *)

\* const defaults = {...}
defaults ==
    [root |-> Null, stage |-> Null, prefix |-> Null, version |-> Null,
     verbose |-> JFalse, secureOnly |-> JTrue, authorization |-> StrNone,
     defaultOptions |-> [method |-> StrGET, headers |-> LiteralHeaders(DefaultHeaders)]]

NoDefaultOptions == [given |-> FALSE, method |-> Absent, headers |-> AbsentHeaders]

Pick(override, default) == IF override = Absent THEN default ELSE override

\* merge(defaults.defaultOptions, settings.defaultOptions): a header map is merged
\* key by key onto the default map, a provider (not a mergeable object) replaces it
MergeDefaultOptions(d, o) ==
    [method |-> Pick(o.method, d.method),
     headers |-> IF o.headers.kind = "absent" THEN d.headers
                 ELSE IF o.headers.kind = "map"
                      THEN LiteralHeaders(MergeHeaders(d.headers.map, o.headers.map))
                      ELSE o.headers]

\* merge(defaults, settings) for a settings object that was passed
MergeSettings(d, s) ==
    [root |-> Pick(s.root, d.root),
     stage |-> Pick(s.stage, d.stage),
     prefix |-> Pick(s.prefix, d.prefix),
     version |-> Pick(s.version, d.version),
     verbose |-> Pick(s.verbose, d.verbose),
     secureOnly |-> Pick(s.secureOnly, d.secureOnly),
     authorization |-> Pick(s.authorization, d.authorization),
     defaultOptions |-> IF s.defaultOptions.given
                        THEN MergeDefaultOptions(d.defaultOptions, s.defaultOptions)
                        ELSE d.defaultOptions]

\* validate that leaves the root out of the schema
validateNoRoot(m) ==
    /\ TypeOf(m.verbose) = "boolean"
    /\ TypeOf(m.secureOnly) = "boolean"
    /\ TypeOf(m.authorization) = "string"

\* verifyRequired(this.settings, schema): each schema key has the named typeof
validate(m) ==
    /\ TypeOf(m.root) = "string"
    /\ TypeOf(m.verbose) = "boolean"
    /\ TypeOf(m.secureOnly) = "boolean"
    /\ TypeOf(m.authorization) = "string"

SanitizeSegment(seg) == IF Truthy(seg) THEN RemoveSlashes(seg) ELSE seg

\* the root after the protocol branch of sanitize()
WithProtocol(r) ==
    IF Len(Split(r, SchemeSep)) > 1 THEN r ELSE Https \o SchemeSep \o r

\* the trailing-slash trim of sanitize()
TrimTrailingSlash(r) ==
    IF r # <<>> /\ r[Len(r)] = "/" THEN SubSeq(r, 1, Len(r) - 1) ELSE r

\* sanitize() refusing every non-https protocol, whatever secureOnly says
InsecureRootAnyMode(m) ==
    LET rootParts == Split(m.root, SchemeSep)
    IN Len(rootParts) > 1 /\ rootParts[1] # Https

\* sanitize() throws: an explicit protocol other than https under secureOnly
InsecureRoot(m) ==
    LET rootParts == Split(m.root, SchemeSep)
    IN Len(rootParts) > 1 /\ rootParts[1] # Https /\ Truthy(m.secureOnly)

sanitizeRoot(r) == TrimTrailingSlash(WithProtocol(r))

NoError == "none"

\* new Api(settings): what the constructor leaves behind, or the error it throws
Constructed(s) ==
    IF ~s.given
    THEN [ok |-> FALSE, error |-> "TypeError", settings |-> defaults,
          root |-> Undefined, stage |-> Undefined, prefix |-> Undefined,
          version |-> Undefined]
    ELSE LET m == MergeSettings(defaults, s)
         IN IF ~validate(m)
            THEN [ok |-> FALSE, error |-> "InvalidSchema", settings |-> m,
                  root |-> Undefined, stage |-> Undefined, prefix |-> Undefined,
                  version |-> Undefined]
            ELSE IF InsecureRoot(m)
            THEN [ok |-> FALSE, error |-> "MustUseHttps", settings |-> m,
                  root |-> m.root, stage |-> m.stage, prefix |-> m.prefix,
                  version |-> m.version]
            ELSE [ok |-> TRUE, error |-> NoError,
                  settings |-> [m EXCEPT !.authorization = capitalizeWord(@)],
                  root |-> sanitizeRoot(m.root),
                  stage |-> SanitizeSegment(m.stage),
                  prefix |-> SanitizeSegment(m.prefix),
                  version |-> SanitizeSegment(m.version)]

---------------------------------------------------------------------------
(* URL builder *)

\* baseUrl with the prefix placed before the stage
baseUrlPrefixFirst ==
    root \o (IF Truthy(prefix) THEN <<"/">> \o prefix ELSE <<>>)
         \o (IF Truthy(stage) THEN <<"/">> \o stage ELSE <<>>)
         \o (IF Truthy(version) THEN <<"/">> \o version ELSE <<>>) \o <<"/">>

\* buildUrl that keeps a leading slash of the path
buildUrlKeepSlash(path) ==
    root \o (IF Truthy(stage) THEN <<"/">> \o stage ELSE <<>>)
         \o (IF Truthy(prefix) THEN <<"/">> \o prefix ELSE <<>>)
         \o (IF Truthy(version) THEN <<"/">> \o version ELSE <<>>) \o <<"/">> \o path

Segment(seg) == IF Truthy(seg) THEN <<"/">> \o seg ELSE <<>>

baseUrl == root \o Segment(stage) \o Segment(prefix) \o Segment(version) \o <<"/">>

buildUrl(path) ==
    IF path # <<>> /\ Head(path) = "/" THEN baseUrl \o Tail(path)
    ELSE baseUrl \o path

---------------------------------------------------------------------------
(* base64encode: Buffer.from(str).toString('base64') *)

Base64Alphabet ==
    <<"A", "B", "C", "D", "E", "F", "G", "H", "I", "J", "K", "L", "M",
      "N", "O", "P", "Q", "R", "S", "T", "U", "V", "W", "X", "Y", "Z",
      "a", "b", "c", "d", "e", "f", "g", "h", "i", "j", "k", "l", "m",
      "n", "o", "p", "q", "r", "s", "t", "u", "v", "w", "x", "y", "z",
      "0", "1", "2", "3", "4", "5", "6", "7", "8", "9", "+", "/">>

\* the byte of each character the credentials of the model are written with
CharCode ==
    [c \in {":", "a", "b", "l", "n", "p", "u"} |->
        CASE c = ":" -> 58 [] c = "a" -> 97 [] c = "b" -> 98 [] c = "l" -> 108
          [] c = "n" -> 110 [] c = "p" -> 112 [] c = "u" -> 117]

Sextet(n) == Base64Alphabet[(n % 64) + 1]

RECURSIVE Base64Bytes(_)
Base64Bytes(bytes) ==
    IF Len(bytes) = 0 THEN <<>>
    ELSE IF Len(bytes) = 1
    THEN LET n == bytes[1] * 65536
         IN <<Sextet(n \div 262144), Sextet(n \div 4096), "=", "=">>
    ELSE IF Len(bytes) = 2
    THEN LET n == bytes[1] * 65536 + bytes[2] * 256
         IN <<Sextet(n \div 262144), Sextet(n \div 4096), Sextet(n \div 64), "=">>
    ELSE LET n == bytes[1] * 65536 + bytes[2] * 256 + bytes[3]
         IN <<Sextet(n \div 262144), Sextet(n \div 4096), Sextet(n \div 64), Sextet(n)>>
                \o Base64Bytes(SubSeq(bytes, 4, Len(bytes)))

base64encode(str) == Base64Bytes([i \in 1..Len(str) |-> CharCode[str[i]]])

---------------------------------------------------------------------------
(* Authorization state and the application's session store *)

NoToken == [kind |-> "undefined", value |-> <<>>, username |-> Absent, password |-> Absent]
NoCustomAuth == [set |-> FALSE, headers |-> AbsentHeaders]
NoArgs ==
    [given |-> FALSE, token |-> Absent, username |-> Absent, password |-> Absent,
     headers |-> AbsentHeaders, validate |-> Absent]
NoAuthorize == [called |-> FALSE, threw |-> FALSE, args |-> NoArgs]
NoBuilt == [asked |-> FALSE, x |-> <<>>, plain |-> <<>>, slashed |-> <<>>]

\* options = {}: a per-call options object with nothing set
NoOptions == [method |-> Absent, headers |-> AbsentHeaders, body |-> Absent]

\* what the application holds: the values its providers read, and an options object
\* it keeps and may pass to several calls
InitialStore ==
    [tok |-> Null, user |-> <<"u">>, pass |-> <<"p">>, valid |-> JTrue,
     hdrs |-> DefaultHeaders, authHdrs |-> [k \in {"X-Token"} |-> <<"a">>],
     opts |-> NoOptions]

\* `${value}` in a template literal
ToStr(v) ==
    IF v = Null THEN <<"n", "u", "l", "l">>
    ELSE IF v = Undefined THEN <<"u", "n", "d", "e", "f", "i", "n", "e", "d">>
    ELSE v

\* varOrFn(ref) for a credential that is a literal or a zero-argument provider
varOrFn(ref, provided) == IF ref = Fn THEN provided ELSE ref

\* authorize storing the value its token provider returns at that moment
TokenOfEager(args) ==
    [kind |-> "literal", value |-> IF args.token = Fn THEN store.tok ELSE args.token,
     username |-> Absent, password |-> Absent]

\* this.token = args.token
TokenOf(args) ==
    IF args.token = Fn
    THEN [kind |-> "provider", value |-> <<>>, username |-> Absent, password |-> Absent]
    ELSE [kind |-> "literal", value |-> args.token, username |-> Absent, password |-> Absent]

\* authorize encoding the credentials its providers return at that moment
BasicTokenOfEager(args) ==
    [kind |-> "literal",
     value |-> base64encode(ToStr(varOrFn(args.username, store.user)) \o <<":">>
                                \o ToStr(varOrFn(args.password, store.pass))),
     username |-> Absent, password |-> Absent]

\* this.token = () => this.base64encode(`${username}:${password}`)
BasicTokenOf(args) ==
    [kind |-> "basic", value |-> <<>>, username |-> args.username,
     password |-> args.password]

\* this.varOrFn(this.token)
ResolveToken ==
    CASE token.kind = "undefined" -> Undefined
      [] token.kind = "literal" -> token.value
      [] token.kind = "provider" -> store.tok
      [] token.kind = "basic" ->
            base64encode(ToStr(varOrFn(token.username, store.user)) \o <<":">>
                             \o ToStr(varOrFn(token.password, store.pass)))

hasValidToken ==
    LET t == IF Truthy(ResolveToken) THEN ResolveToken ELSE Null
    IN IF ~Truthy(t) THEN t
       ELSE IF Trim(t) # <<>> THEN JTrue ELSE JFalse

\* isAuthorized that takes a stored custom-auth record as valid without asking
isAuthorizedOnceStored ==
    IF settings.authorization = StrCustom /\ customAuth.set
    THEN JTrue
    ELSE IF settings.authorization # StrNone THEN hasValidToken ELSE JFalse

\* isAuthorized that does not look at the strategy being 'None'
isAuthorizedAnyStrategy ==
    IF settings.authorization = StrCustom /\ customAuth.set
    THEN store.valid
    ELSE hasValidToken

isAuthorized ==
    IF settings.authorization = StrCustom /\ customAuth.set
    THEN store.valid
    ELSE IF settings.authorization # StrNone THEN hasValidToken ELSE JFalse

HeadersGiven(h) == h.kind # "absent"

\* authorize that accepts username and password under any strategy
BasicArgsAnyStrategy(args) == Truthy(args.username) /\ Truthy(args.password)

CustomArgs(args) ==
    settings.authorization = StrCustom /\ HeadersGiven(args.headers) /\ Truthy(args.validate)

BasicArgs(args) ==
    settings.authorization = StrBasic /\ Truthy(args.username) /\ Truthy(args.password)

\* authorize(args) throws
AuthorizeThrows(args) ==
    \/ ~args.given
    \/ /\ ~Truthy(args.token)
       /\ IF CustomArgs(args) THEN TypeOf(args.validate) # "function"
          ELSE ~BasicArgs(args)

\* authorize that stores a custom-auth record before it verifies validate
AuthorizeStoringFirst(args) ==
    /\ status = "ready"
    /\ lastAuthorize' = [called |-> TRUE, threw |-> AuthorizeThrows(args), args |-> args]
    /\ thrown' = IF AuthorizeThrows(args) THEN "InvalidArgs" ELSE NoError
    /\ token' = IF AuthorizeThrows(args) THEN token
                ELSE IF Truthy(args.token) THEN TokenOf(args)
                ELSE IF CustomArgs(args) THEN token
                ELSE BasicTokenOf(args)
    /\ customAuth' = IF args.given /\ ~Truthy(args.token) /\ CustomArgs(args)
                     THEN [set |-> TRUE, headers |-> args.headers]
                     ELSE customAuth
    /\ UNCHANGED <<status, settings, root, stage, prefix, version, middlewares,
                   listeners, store, calls, urls, built>>

\* authorize(args)
Authorize(args) ==
    /\ status = "ready"
    /\ lastAuthorize' = [called |-> TRUE, threw |-> AuthorizeThrows(args), args |-> args]
    /\ thrown' = IF AuthorizeThrows(args) THEN "InvalidArgs" ELSE NoError
    /\ token' = IF AuthorizeThrows(args) THEN token
                ELSE IF Truthy(args.token) THEN TokenOf(args)
                ELSE IF CustomArgs(args) THEN token
                ELSE BasicTokenOf(args)
    /\ customAuth' = IF ~AuthorizeThrows(args) /\ ~Truthy(args.token) /\ CustomArgs(args)
                     THEN [set |-> TRUE, headers |-> args.headers]
                     ELSE customAuth
    /\ UNCHANGED <<status, settings, root, stage, prefix, version, middlewares,
                   listeners, store, calls, urls, built>>

\* the application's session store changes under the providers
SetTok(v) ==
    /\ status = "ready" /\ v # store.tok
    /\ store' = [store EXCEPT !.tok = v]
    /\ UNCHANGED <<status, thrown, settings, root, stage, prefix, version, middlewares,
                   listeners, token, customAuth, lastAuthorize, calls, urls, built>>

SetCredentials(u, p) ==
    /\ status = "ready" /\ <<u, p>> # <<store.user, store.pass>>
    /\ store' = [store EXCEPT !.user = u, !.pass = p]
    /\ UNCHANGED <<status, thrown, settings, root, stage, prefix, version, middlewares,
                   listeners, token, customAuth, lastAuthorize, calls, urls, built>>

SetValid(v) ==
    /\ status = "ready" /\ v # store.valid
    /\ store' = [store EXCEPT !.valid = v]
    /\ UNCHANGED <<status, thrown, settings, root, stage, prefix, version, middlewares,
                   listeners, token, customAuth, lastAuthorize, calls, urls, built>>

\* the headers the application's custom-auth headers provider returns change
SetAuthHdrs(h) ==
    /\ status = "ready" /\ h # store.authHdrs
    /\ store' = [store EXCEPT !.authHdrs = h]
    /\ UNCHANGED <<status, thrown, settings, root, stage, prefix, version, middlewares,
                   listeners, token, customAuth, lastAuthorize, calls, urls, built>>

---------------------------------------------------------------------------
(* Request dispatcher: callRoute and the verb helpers *)

\* the headers object of merge(this.settings.defaultOptions, options) after
\* callOptions.headers = this.varOrFn(callOptions.headers).  A provider is not a
\* mergeable object: without per-call headers it is called and what it returns
\* is used as it is; with per-call headers deepmerge starts from an empty object.
MergedHeaders(options) ==
    LET d == settings.defaultOptions.headers
    IN IF IsProvider(d)
       THEN IF HeadersGiven(options.headers) THEN options.headers.map ELSE store.hdrs
       ELSE IF HeadersGiven(options.headers)
            THEN MergeHeaders(d.map, options.headers.map)
            ELSE d.map

\* callOptions.headers is the very object the default headers provider returned
SharesProviderObject(options) ==
    settings.defaultOptions.headers.kind = "shared" /\ ~HeadersGiven(options.headers)

CustomHeaders ==
    IF IsProvider(customAuth.headers) THEN store.authHdrs ELSE customAuth.headers.map

\* `${this.settings.authorization} ${this.varOrFn(this.token)}`
AuthorizationValue == settings.authorization \o <<" ">> \o ToStr(ResolveToken)

\* the headers callRoute hands to fetch
CallHeaders(options) ==
    IF Truthy(isAuthorized)
    THEN IF customAuth.set
         THEN MergeHeaders(MergedHeaders(options), CustomHeaders)
         ELSE MergeHeaders(MergedHeaders(options),
                           [k \in {"Authorization"} |-> AuthorizationValue])
    ELSE MergedHeaders(options)

\* the Authorization assignment writes into the provider's own object
WritesProviderObject(options) ==
    Truthy(isAuthorized) /\ ~customAuth.set /\ SharesProviderObject(options)

NoValue == [type |-> "none", ok |-> FALSE, status |-> 0, via |-> <<>>, err |-> "none", at |-> 0]

Response(ok, st) ==
    [type |-> "response", ok |-> ok, status |-> st, via |-> <<>>, err |-> "none", at |-> 0]

Failure(kind, k) ==
    [type |-> "error", ok |-> FALSE, status |-> 0, via |-> <<>>, err |-> kind, at |-> k]

\* what a provider does instead of returning: it throws
Raises == <<"raises">>

\* this.isAuthorized() in callRoute throws: the strategy sends it to hasValidToken,
\* and the token provider throws
CredentialsRaise ==
    /\ settings.authorization # StrNone
    /\ ~(settings.authorization = StrCustom /\ customAuth.set)
    /\ token.kind = "provider" /\ store.tok = Raises

\* an exception of the credentials left unhandled, the promise staying pending
CredentialsUnhandled(c) == [c EXCEPT !.pc = "unhandled"]

\* callRoute runs inside the executor of new Promise: an exception thrown before
\* this.fetch is called rejects the promise
CredentialsRejected(c) ==
    [c EXCEPT !.pc = "settled", !.outcome = "rejected", !.result = Failure("credentials", 0)]

\* callRoute({ path, options }) up to this.fetch(this.buildUrl(path), callOptions);
\* shared says that the headers handed to fetch are the provider's own object (the
\* custom branch replaces them by a new merged object);
\* held says that options is the object the application keeps, which then carries
\* whatever the verb helper assigned to it
callRoute(verb, path, options, held) ==
    /\ status = "ready"
    /\ Len(calls) < MaxCalls
    /\ calls' = Append(calls,
          LET c == [verb |-> verb, path |-> path, url |-> buildUrl(path),
                    method |-> Pick(options.method, settings.defaultOptions.method),
                    headers |-> MergedHeaders(options), body |-> options.body,
                    options |-> options, shared |-> FALSE,
                    pc |-> "fetch", response |-> NoValue, value |-> NoValue,
                    chain |-> <<>>, ran |-> <<>>,
                    notified |-> <<>>, outcome |-> "pending", result |-> NoValue]
          IN IF CredentialsRaise
             THEN CredentialsRejected(c)
             ELSE [c EXCEPT !.headers = CallHeaders(options),
                            !.shared = SharesProviderObject(options)
                                          /\ ~(Truthy(isAuthorized) /\ customAuth.set)])
    /\ store' = [store EXCEPT
                     !.hdrs = IF ~CredentialsRaise /\ WritesProviderObject(options)
                              THEN CallHeaders(options) ELSE @,
                     !.opts = IF held THEN options ELSE @]
    /\ UNCHANGED <<status, thrown, settings, root, stage, prefix, version, middlewares,
                   listeners, token, customAuth, lastAuthorize, urls, built>>

\* api.get(path, options)
Get(path, options) == callRoute("get", path, options, FALSE)

\* the options a helper receives: the application's kept object or a new one
Passed(held) == IF held THEN store.opts ELSE NoOptions

\* JSON.stringify of a flat object given as its <<key, value>> pairs in insertion
\* order, the values being strings
Quoted(s) == <<"\"">> \o s \o <<"\"">>

RECURSIVE Members(_)
Members(pairs) ==
    IF pairs = <<>> THEN <<>>
    ELSE Quoted(pairs[1][1]) \o <<":">> \o Quoted(pairs[1][2])
            \o (IF Len(pairs) > 1 THEN <<",">> ELSE <<>>)
            \o Members(Tail(pairs))

\* body = {} when the argument is left out
JSONstringify(body) ==
    <<"{">> \o Members(IF body = Absent THEN <<>> ELSE body) \o <<"}">>

\* the method each helper assigns to options.method
Method ==
    [post |-> <<"P", "O", "S", "T">>, put |-> <<"P", "U", "T">>,
     patch |-> <<"P", "A", "T", "C", "H">>,
     delete |-> <<"D", "E", "L", "E", "T", "E">>, head |-> <<"H", "E", "A", "D">>]

\* api.get(path, options) with the object the application keeps
GetHeld(path) == callRoute("get", path, store.opts, TRUE)

\* api.post(path, body, options)
Post(path, body, held) ==
    callRoute("post", path,
              [Passed(held) EXCEPT !.method = Method.post, !.body = JSONstringify(body)], held)

\* api.put(path, body, options)
Put(path, body, held) ==
    callRoute("put", path,
              [Passed(held) EXCEPT !.method = Method.put, !.body = JSONstringify(body)], held)

\* api.patch(path, body, options)
Patch(path, body, held) ==
    callRoute("patch", path,
              [Passed(held) EXCEPT !.method = Method.patch, !.body = JSONstringify(body)], held)

\* api.delete(path, options)
Delete(path, held) ==
    callRoute("delete", path, [Passed(held) EXCEPT !.method = Method.delete], held)

\* api.head(path, options)
HeadRequest(path, held) ==
    callRoute("head", path, [Passed(held) EXCEPT !.method = Method.head], held)

---------------------------------------------------------------------------
(* Middleware / event pipeline *)

DigitChar == <<"0", "1", "2", "3", "4", "5", "6", "7", "8", "9">>

\* Number.prototype.toString()
RECURSIVE NumToString(_)
NumToString(n) ==
    IF n < 10 THEN <<DigitChar[n + 1]>>
    ELSE NumToString(n \div 10) \o <<DigitChar[(n % 10) + 1]>>

IsDigit(c) == \E i \in 1..10 : DigitChar[i] = c

\* /2\d\d/.test(response.status)
Matches2xx(st) ==
    LET s == NumToString(st)
    IN \E i \in 1..Len(s) :
          i + 2 <= Len(s) /\ s[i] = "2" /\ IsDigit(s[i + 1]) /\ IsDigit(s[i + 2])

EventSuccess == <<"s", "u", "c", "c", "e", "s", "s">>
EventError == <<"e", "r", "r", "o", "r">>

\* this.eventNames().includes(name)
HasListeners(name) == name \in DOMAIN listeners /\ listeners[name] # <<>>

\* api.use(fn)
Use(fn) ==
    /\ status = "ready"
    /\ Len(middlewares) < MaxMiddlewares
    /\ middlewares' = Append(middlewares, fn)
    /\ UNCHANGED <<status, thrown, settings, root, stage, prefix, version,
                   listeners, token, customAuth, store, lastAuthorize, calls, urls, built>>

ListenerCount(reg) ==
    LET RECURSIVE Sum(_)
        Sum(S) == IF S = {} THEN 0
                  ELSE LET e == CHOOSE x \in S : TRUE
                       IN Len(reg[e]) + Sum(S \ {e})
    IN Sum(DOMAIN reg)

\* api.on(name, listener)
On(name, listener) ==
    /\ status = "ready"
    /\ ListenerCount(listeners) < MaxListeners
    /\ listeners' = [e \in (DOMAIN listeners) \cup {name} |->
                        IF e = name
                        THEN (IF name \in DOMAIN listeners THEN listeners[name] ELSE <<>>)
                                 \o <<listener>>
                        ELSE listeners[e]]
    /\ UNCHANGED <<status, thrown, settings, root, stage, prefix, version, middlewares,
                   token, customAuth, store, lastAuthorize, calls, urls, built>>

UpdateCall(i, c) ==
    /\ calls' = [calls EXCEPT ![i] = c]
    /\ UNCHANGED <<status, thrown, settings, root, stage, prefix, version, middlewares,
                   listeners, token, customAuth, store, lastAuthorize, urls, built>>

\* a transport failure reaching the caller wrapped in another error
FetchRejectsWrapped(i) ==
    /\ i \in DOMAIN calls /\ calls[i].pc = "fetch"
    /\ UpdateCall(i, [calls[i] EXCEPT !.pc = "settled", !.outcome = "rejected",
                                      !.result = Failure("wrapped", 0)])

\* the transport's promise rejects: .catch(reject)
FetchRejects(i) ==
    /\ i \in DOMAIN calls /\ calls[i].pc = "fetch"
    /\ UpdateCall(i, [calls[i] EXCEPT !.pc = "settled", !.outcome = "rejected",
                                      !.result = Failure("transport", 0)])

\* the transport's promise resolves: handleMiddlewares(response) builds the chain
\* over the middlewares registered at that moment
FetchResolves(i, response) ==
    /\ i \in DOMAIN calls /\ calls[i].pc = "fetch"
    /\ UpdateCall(i, [calls[i] EXCEPT !.pc = IF middlewares = <<>> THEN "events" ELSE "mw",
                                      !.response = response, !.value = response,
                                      !.chain = middlewares])

\* what one middleware stage makes of the value it receives: it hands it on, it
\* returns a transformed response, or it throws (or returns a rejected promise)
StageOutput(fn, k, value) ==
    CASE fn = "pass" -> value
      [] fn = "tag" -> [value EXCEPT !.via = Append(@, k)]
      [] fn = "throw" -> Failure("middleware", k)

\* the chain going on to the next stage although a stage failed
AfterStageKeepGoing(c, out) ==
    [c EXCEPT !.ran = Append(@, Len(c.ran) + 1),
              !.value = IF out.type = "error" THEN c.value ELSE out,
              !.pc = IF Len(c.ran) + 1 = Len(c.chain) THEN "events" ELSE "mw"]

\* promiseChain.then(currentTask): a failed stage skips every later then-callback
\* and reaches .catch(reject)
AfterStage(c, out) ==
    IF out.type = "error"
    THEN [c EXCEPT !.ran = Append(@, Len(c.ran) + 1), !.pc = "settled",
                   !.outcome = "rejected", !.result = out]
    ELSE [c EXCEPT !.ran = Append(@, Len(c.ran) + 1), !.value = out,
                   !.pc = IF Len(c.ran) + 1 = Len(c.chain) THEN "events" ELSE "mw"]

\* the next middleware stage of call i runs
RunMiddleware(i) ==
    /\ i \in DOMAIN calls /\ calls[i].pc = "mw"
    /\ LET c == calls[i]
           k == Len(c.ran) + 1
       IN UpdateCall(i, AfterStage(c, StageOutput(c.chain[k], k, c.value)))

\* the events handleEvents emits for a response, in order
EventsFor(response) ==
    (IF HasListeners(NumToString(response.status))
     THEN <<NumToString(response.status)>> ELSE <<>>)
    \o (IF Matches2xx(response.status)
        THEN (IF HasListeners(EventSuccess) THEN <<EventSuccess>> ELSE <<>>)
        ELSE (IF HasListeners(EventError) THEN <<EventError>> ELSE <<>>))

\* the listeners this.emit calls for these events, one after the other
RECURSIVE Invocations(_)
Invocations(events) ==
    IF events = <<>> THEN <<>>
    ELSE [j \in 1..Len(listeners[Head(events)]) |->
             [event |-> Head(events), listener |-> listeners[Head(events)][j]]]
         \o Invocations(Tail(events))

\* the index of the first listener that throws, 0 when none does
FirstThrow(invs) ==
    IF \E j \in 1..Len(invs) : invs[j].listener = "throw"
    THEN CHOOSE j \in 1..Len(invs) :
            /\ invs[j].listener = "throw"
            /\ \A h \in 1..(j - 1) : invs[h].listener # "throw"
    ELSE 0

\* handleEvents(response)
HandleEvents(i) ==
    /\ i \in DOMAIN calls /\ calls[i].pc = "events"
    /\ LET c == calls[i]
           invs == Invocations(EventsFor(c.value))
           t == FirstThrow(invs)
       IN UpdateCall(i,
             IF t = 0
             THEN [c EXCEPT !.notified = invs, !.pc = "classify"]
             ELSE [c EXCEPT !.notified = SubSeq(invs, 1, t), !.pc = "settled",
                            !.outcome = "rejected", !.result = Failure("listener", t)])

\* the last then-callback sending the request again when the response is not ok
ClassifiedRetry(c) ==
    IF c.value.ok
    THEN [c EXCEPT !.pc = "settled", !.outcome = "resolved", !.result = c.value]
    ELSE [c EXCEPT !.pc = "fetch"]

\* the last then-callback settling although the response is not ok
ClassifiedAlwaysResolved(c) ==
    [c EXCEPT !.pc = "settled", !.outcome = "resolved", !.result = c.value]

\* if (response.ok) resolve(response) else reject(response)
Classified(c) ==
    [c EXCEPT !.pc = "settled",
              !.outcome = IF c.value.ok THEN "resolved" ELSE "rejected",
              !.result = c.value]

Classify(i) ==
    /\ i \in DOMAIN calls /\ calls[i].pc = "classify"
    /\ UpdateCall(i, Classified(calls[i]))

NoListeners == [e \in {} |-> <<>>]

\* before new Api(...) has run
InitNone ==
    /\ status = "none"
    /\ thrown = NoError
    /\ settings = defaults
    /\ root = Undefined
    /\ stage = Undefined
    /\ prefix = Undefined
    /\ version = Undefined
    /\ middlewares = <<>>
    /\ listeners = NoListeners
    /\ token = NoToken
    /\ customAuth = NoCustomAuth
    /\ store = InitialStore
    /\ lastAuthorize = NoAuthorize
    /\ calls = <<>>
    /\ urls = <<>>
    /\ built = NoBuilt

---------------------------------------------------------------------------
(* Construction and the URL builder as operations *)

\* new Api(s)
New(s) ==
    /\ status = "none"
    /\ LET c == Constructed(s)
       IN /\ status' = IF c.ok THEN "ready" ELSE "threw"
          /\ thrown' = c.error
          /\ settings' = c.settings
          /\ root' = c.root
          /\ stage' = c.stage
          /\ prefix' = c.prefix
          /\ version' = c.version
    /\ middlewares' = <<>>
    /\ UNCHANGED <<listeners, token, customAuth, store, lastAuthorize, calls, urls, built>>

\* api.baseUrl()
BaseUrlCall ==
    /\ status = "ready"
    /\ Len(urls) < MaxQueries
    /\ urls' = Append(urls, baseUrl)
    /\ UNCHANGED <<status, thrown, settings, root, stage, prefix, version, middlewares,
                   listeners, token, customAuth, store, lastAuthorize, calls, built>>

\* api.buildUrl(x) and api.buildUrl('/' + x)
BuildUrlCall(x) ==
    /\ status = "ready"
    /\ ~built.asked
    /\ built' = [asked |-> TRUE, x |-> x, plain |-> buildUrl(x),
                 slashed |-> buildUrl(<<"/">> \o x)]
    /\ UNCHANGED <<status, thrown, settings, root, stage, prefix, version, middlewares,
                   listeners, token, customAuth, store, lastAuthorize, calls, urls>>

\* the settings the URL specification constructs with
RootPrefixes == {<<>>, Https \o SchemeSep, Http \o SchemeSep, SchemeSep}

RootStrings ==
    {p \o t : p \in RootPrefixes, t \in SeqsUpTo({"a", "/"}, MaxTailLen)}
        \cup {ApiExampleCom, Https \o SchemeSep \o <<"a", "/", "/">>}

SegStrings == SeqsUpTo({"v", "/"}, MaxSegLen)

NoSettings ==
    [given |-> FALSE, root |-> Absent, stage |-> Absent, prefix |-> Absent,
     version |-> Absent, verbose |-> Absent, secureOnly |-> Absent,
     authorization |-> Absent, defaultOptions |-> NoDefaultOptions]

UrlSettings ==
    {NoSettings} \cup
    [given : {TRUE},
     root : RootStrings \cup {Absent, Null, NumberVal},
     stage : SegStrings \cup {Absent, Dev},
     prefix : {Absent, ApiSeg, <<"/">> \o ApiSeg},
     version : {Absent, V1, <<"/">>},
     verbose : {Absent},
     secureOnly : {Absent, JFalse},
     authorization : {Absent},
     defaultOptions : {NoDefaultOptions}]

Paths == SeqsUpTo({"x", "/"}, MaxPathLen)

NextUrl ==
    \/ status = "none" /\ \E s \in UrlSettings : New(s)
    \/ BaseUrlCall
    \/ \E x \in Paths : BuildUrlCall(x)

SpecUrl == InitNone /\ [][NextUrl]_vars

---------------------------------------------------------------------------
(* The authorization specifications: a constructed instance, authorize, the
   session store changing under the providers, and calls being dispatched *)

\* after new Api(s) has returned
InitReady(s) ==
    /\ Constructed(s).ok
    /\ status = "ready"
    /\ thrown = NoError
    /\ settings = Constructed(s).settings
    /\ root = Constructed(s).root
    /\ stage = Constructed(s).stage
    /\ prefix = Constructed(s).prefix
    /\ version = Constructed(s).version
    /\ middlewares = <<>>
    /\ listeners = NoListeners
    /\ token = NoToken
    /\ customAuth = NoCustomAuth
    /\ store = InitialStore
    /\ lastAuthorize = NoAuthorize
    /\ calls = <<>>
    /\ urls = <<>>
    /\ built = NoBuilt

ShortRoot == <<"a">>

\* the recognized strategies as an application writes them, and an unrecognized one
Strategies == {Absent, <<"b", "a", "s", "i", "c">>, StrBearer, <<"c", "u", "s", "t", "o", "m">>}
OtherStrategy == <<"s", "t", "u", "f", "f">>

SettingsWith(strategies, headerSources) ==
    [given : {TRUE}, root : {ShortRoot}, stage : {Absent}, prefix : {Absent},
     version : {Absent}, verbose : {Absent}, secureOnly : {Absent},
     authorization : strategies,
     defaultOptions : {NoDefaultOptions} \cup
                      {[given |-> TRUE, method |-> Absent, headers |-> h] : h \in headerSources}]

AuthSettings == SettingsWith(Strategies, {SharedProvider})

AuthorizeSettings == SettingsWith(Strategies \cup {OtherStrategy}, {})

XAuthHeaders == [k \in {"X-Auth"} |-> <<"h">>]

Args(tk, u, pw, h, v) ==
    [given |-> TRUE, token |-> tk, username |-> u, password |-> pw,
     headers |-> h, validate |-> v]

\* every shape of authorize argument
AllArgs ==
    {NoArgs} \cup
    [given : {TRUE},
     token : {Absent, <<>>, <<"t">>, Fn},
     username : {Absent, <<"u">>, Fn},
     password : {Absent, <<>>, <<"p">>},
     headers : {AbsentHeaders, LiteralHeaders(XAuthHeaders)},
     validate : {Absent, Fn, JTrue}]

\* the authorize arguments of the tests and of the README, and an invalid one
CallArgs ==
    {Args(<<"t">>, Absent, Absent, AbsentHeaders, Absent),
     Args(Fn, Absent, Absent, AbsentHeaders, Absent),
     Args(Absent, <<"a">>, <<"b">>, AbsentHeaders, Absent),
     Args(Absent, Fn, Fn, AbsentHeaders, Absent),
     Args(Absent, Absent, Absent, LiteralHeaders(XAuthHeaders), Fn),
     Args(Absent, Absent, Absent, AbsentHeaders, Absent)}

TokValues == {Null, <<"t">>, <<"s">>, <<" ">>}
Credentials == {<<(<<"u">>), (<<"p">>)>>, <<(<<>>), (<<"b">>)>>}

CallOptions ==
    {NoOptions,
     [method |-> Absent, body |-> Absent,
      headers |-> LiteralHeaders([k \in {"Authorization"} |-> <<"o">>])]}

InitAuth == \E s \in AuthSettings : InitReady(s)

NextAuth ==
    \/ \E a \in CallArgs : Authorize(a)
    \/ \E v \in TokValues : SetTok(v)
    \/ \E c \in Credentials : SetCredentials(c[1], c[2])
    \/ \E o \in CallOptions : Get(<<"x">>, o)

SpecAuth == InitAuth /\ [][NextAuth]_vars

NextAuthorize == \E a \in AllArgs : Authorize(a)

InitAuthorize == \E s \in AuthorizeSettings : InitReady(s)

SpecAuthorize == InitAuthorize /\ [][NextAuthorize]_vars

---------------------------------------------------------------------------
(* The custom authorization specification: strategy Custom, a custom-auth record
   with literal or provided headers, validate and the provider changing their
   answers between calls *)

CustomCallArgs ==
    {Args(<<"t">>, Absent, Absent, AbsentHeaders, Absent),
     Args(Absent, Absent, Absent, LiteralHeaders(XAuthHeaders), Fn),
     Args(Absent, Absent, Absent, FreshProvider, Fn)}

AuthHdrValues == {[k \in {"X-Token"} |-> <<"a">>], [k \in {"X-Token"} |-> <<"b">>]}

NextCustom ==
    \/ \E a \in CustomCallArgs : Authorize(a)
    \/ \E v \in {JTrue, JFalse} : SetValid(v)
    \/ \E h \in AuthHdrValues : SetAuthHdrs(h)
    \/ \E o \in CallOptions : Get(<<"x">>, o)

SpecCustom == (\E s \in SettingsWith({StrCustom}, {}) : InitReady(s)) /\ [][NextCustom]_vars

---------------------------------------------------------------------------
(* The pipeline specification: one call of a constructed instance going through the
   transport, the middleware chain, the event listeners and the classification *)

RootOnly == [NoSettings EXCEPT !.given = TRUE, !.root = ShortRoot]

Middlewares == {"pass", "tag", "throw"}
Listeners == {"ok", "throw"}
Responses == {Response(TRUE, 200), Response(FALSE, 500), Response(FALSE, 200)}
EventNames == {NumToString(500), EventSuccess, EventError}

InitPipe == InitReady(RootOnly)

NextPipe ==
    \/ \E fn \in Middlewares : Use(fn)
    \/ \E e \in EventNames, l \in Listeners : On(e, l)
    \/ calls = <<>> /\ Get(<<"x">>, NoOptions)
    \/ \E i \in 1..MaxCalls, r \in Responses : FetchResolves(i, r)
    \/ \E i \in 1..MaxCalls : FetchRejects(i)
    \/ \E i \in 1..MaxCalls : RunMiddleware(i)
    \/ \E i \in 1..MaxCalls : HandleEvents(i)
    \/ \E i \in 1..MaxCalls : Classify(i)

SpecPipe == InitPipe /\ [][NextPipe]_vars

---------------------------------------------------------------------------
(* The settling specification: a call of a Bearer instance whose token provider may
   throw, with middlewares and listeners that may throw, under the scheduling of
   promises: a transport that settles, and then-callbacks that run once the promise
   before them has settled *)

SettleMiddlewares == {"pass", "throw"}

InitSettle == \E s \in SettingsWith({StrBearer}, {}) : InitReady(s)

NextSettle ==
    \/ Authorize(Args(Fn, Absent, Absent, AbsentHeaders, Absent))
    \/ \E v \in {<<"t">>, Raises} : SetTok(v)
    \/ \E fn \in SettleMiddlewares : Use(fn)
    \/ On(EventSuccess, "throw")
    \/ calls = <<>> /\ Get(<<"x">>, NoOptions)
    \/ \E i \in 1..MaxCalls : FetchResolves(i, Response(TRUE, 200))
    \/ \E i \in 1..MaxCalls : FetchRejects(i)
    \/ \E i \in 1..MaxCalls : RunMiddleware(i)
    \/ \E i \in 1..MaxCalls : HandleEvents(i)
    \/ \E i \in 1..MaxCalls : Classify(i)

\* the transport settles every request, and every then-callback of the chain runs
\* once the stage before it has settled
Scheduling ==
    \A i \in 1..MaxCalls :
        /\ WF_vars(FetchResolves(i, Response(TRUE, 200)) \/ FetchRejects(i))
        /\ WF_vars(RunMiddleware(i))
        /\ WF_vars(HandleEvents(i))
        /\ WF_vars(Classify(i))

SpecSettle == InitSettle /\ [][NextSettle]_vars /\ Scheduling

---------------------------------------------------------------------------
(* The verb helpers specification: a constructed instance whose default method is
   GET or configured, and the six helpers called with new options objects or with
   one object the application keeps *)

VerbSettings ==
    {RootOnly,
     [RootOnly EXCEPT !.defaultOptions =
         [given |-> TRUE, method |-> Method.post, headers |-> AbsentHeaders]]}

Bodies == {Absent, <<>>, << <<(<<"a">>), (<<"b">>)>> >>}

InitVerbs == \E s \in VerbSettings : InitReady(s)

NextVerbs ==
    \/ \E x \in Paths : Get(x, NoOptions)
    \/ \E x \in Paths : GetHeld(x)
    \/ \E b \in Bodies, h \in BOOLEAN : Post(<<"x">>, b, h)
    \/ \E b \in Bodies, h \in BOOLEAN : Put(<<"x">>, b, h)
    \/ \E b \in Bodies, h \in BOOLEAN : Patch(<<"x">>, b, h)
    \/ \E h \in BOOLEAN : Delete(<<"x">>, h)
    \/ \E h \in BOOLEAN : HeadRequest(<<"x">>, h)

SpecVerbs == InitVerbs /\ [][NextVerbs]_vars

---------------------------------------------------------------------------
(* The whole program *)

Init == InitNone

Next ==
    \/ status = "none" /\ \E s \in UrlSettings \cup AuthorizeSettings : New(s)
    \/ BaseUrlCall
    \/ \E x \in Paths : BuildUrlCall(x)
    \/ \E a \in CallArgs : Authorize(a)
    \/ \E v \in TokValues : SetTok(v)
    \/ \E c \in Credentials : SetCredentials(c[1], c[2])
    \/ \E v \in {JTrue, JFalse} : SetValid(v)
    \/ \E h \in AuthHdrValues : SetAuthHdrs(h)
    \/ \E fn \in Middlewares : Use(fn)
    \/ \E e \in EventNames, l \in Listeners : On(e, l)
    \/ \E x \in Paths, o \in CallOptions : Get(x, o)
    \/ \E x \in Paths : GetHeld(x)
    \/ \E b \in Bodies, h \in BOOLEAN : Post(<<"x">>, b, h)
    \/ \E b \in Bodies, h \in BOOLEAN : Put(<<"x">>, b, h)
    \/ \E b \in Bodies, h \in BOOLEAN : Patch(<<"x">>, b, h)
    \/ \E h \in BOOLEAN : Delete(<<"x">>, h)
    \/ \E h \in BOOLEAN : HeadRequest(<<"x">>, h)
    \/ \E i \in 1..MaxCalls, r \in Responses : FetchResolves(i, r)
    \/ \E i \in 1..MaxCalls : FetchRejects(i)
    \/ \E i \in 1..MaxCalls : RunMiddleware(i)
    \/ \E i \in 1..MaxCalls : HandleEvents(i)
    \/ \E i \in 1..MaxCalls : Classify(i)

Spec == Init /\ [][Next]_vars

---------------------------------------------------------------------------
(* Claims about construction and the URL builder, checked under SpecUrl *)

EndsWithOneSlash(u) ==
    /\ Len(u) >= 1 /\ u[Len(u)] = "/"
    /\ (Len(u) >= 2 => u[Len(u) - 1] # "/")

\* C7: for every settings combination that construction accepts, every baseUrl()
\* call returns the same string, and that string ends with exactly one '/'.
C7_BaseUrlStableOneSlash ==
    \A i \in DOMAIN urls : urls[i] = urls[1] /\ EndsWithOneSlash(urls[i])

\* C8 as stated: buildUrl('/' + x) and buildUrl(x) are identical for every string x.
C8_LeadingSlashAnyPath == built.asked => built.slashed = built.plain

\* C8 as amended: buildUrl('/' + x) and buildUrl(x) are identical for every string x
\* that does not itself begin with '/'.
C8_LeadingSlashIgnored ==
    (built.asked /\ ~StartsWith(built.x, <<"/">>)) => built.slashed = built.plain

C8_Witness ==
    /\ built.asked /\ built.x = <<"x">>
    /\ built.slashed = built.plain
    /\ built.plain = root \o <<"/", "x">>

NonEmptySeg(seg) == seg \notin {Null, Undefined, <<>>}

ExampleRoot == Https \o SchemeSep \o ApiExampleCom

\* C9: baseUrl() is the sanitized root, then '/' + stage, '/' + prefix, '/' + version
\* for exactly the non-empty ones, in that order, then a final '/'; the root
\* 'api.example.com' gives 'https://api.example.com/', '.../dev/', '.../dev/api/'
\* and '.../dev/api/v1/'.
C9_BaseUrlComposition ==
    \A i \in DOMAIN urls :
        /\ urls[i] = root
                \o (IF NonEmptySeg(stage) THEN <<"/">> \o stage ELSE <<>>)
                \o (IF NonEmptySeg(prefix) THEN <<"/">> \o prefix ELSE <<>>)
                \o (IF NonEmptySeg(version) THEN <<"/">> \o version ELSE <<>>)
                \o <<"/">>
        /\ settings.root = ApiExampleCom =>
            /\ (settings.stage = Null /\ settings.prefix = Null /\ settings.version = Null)
                   => urls[i] = ExampleRoot \o <<"/">>
            /\ (settings.stage = Dev /\ settings.prefix = Null /\ settings.version = Null)
                   => urls[i] = ExampleRoot \o <<"/">> \o Dev \o <<"/">>
            /\ (settings.stage = Dev /\ settings.prefix = ApiSeg /\ settings.version = Null)
                   => urls[i] = ExampleRoot \o <<"/">> \o Dev \o <<"/">> \o ApiSeg \o <<"/">>
            /\ (settings.stage = Dev /\ settings.prefix = ApiSeg /\ settings.version = V1)
                   => urls[i] = ExampleRoot \o <<"/">> \o Dev \o <<"/">> \o ApiSeg
                                    \o <<"/">> \o V1 \o <<"/">>

C9_Witness ==
    /\ Len(urls) >= 1
    /\ settings.root = ApiExampleCom /\ settings.stage = Dev
    /\ settings.prefix = ApiSeg /\ settings.version = V1
    /\ urls[1] = ExampleRoot \o <<"/">> \o Dev \o <<"/">> \o ApiSeg \o <<"/">> \o V1 \o <<"/">>

OnlyRootGiven == settings = [defaults EXCEPT !.root = settings.root]

DocumentedDefaults ==
    /\ settings.verbose = JFalse
    /\ settings.secureOnly = JTrue
    /\ settings.authorization = StrNone
    /\ settings.defaultOptions.method = StrGET
    /\ settings.defaultOptions.headers = LiteralHeaders(DefaultHeaders)

\* the text before the first '://' of r is something other than 'https'
NamesOtherScheme(r) ==
    \E i \in 1..Len(r) :
        /\ i + 2 <= Len(r) /\ SubSeq(r, i, i + 2) = SchemeSep
        /\ \A j \in 1..(i - 1) : SubSeq(r, j, j + 2) # SchemeSep
        /\ SubSeq(r, 1, i - 1) # Https

\* C10 as stated: construction fails when no root string is supplied, and succeeds,
\* every other setting at its documented default, when a root string alone is supplied.
C10_ConstructWithRootOnly ==
    status # "none" =>
        /\ ~IsString(settings.root) => status = "threw"
        /\ (IsString(settings.root) /\ OnlyRootGiven)
               => (status = "ready" /\ DocumentedDefaults)

\* C10 as amended: construction fails when no root string is supplied, and succeeds,
\* every other setting at its documented default, when the only setting supplied is a
\* non-empty root string that names no scheme other than https.
C10_ConstructWithSecureRootOnly ==
    status # "none" =>
        /\ ~IsString(settings.root) => status = "threw"
        /\ (IsString(settings.root) /\ settings.root # <<>> /\ OnlyRootGiven
                /\ ~NamesOtherScheme(settings.root))
               => (status = "ready" /\ DocumentedDefaults)

C10_Witness ==
    /\ status = "ready" /\ OnlyRootGiven /\ settings.root = ApiExampleCom
    /\ DocumentedDefaults /\ root = ExampleRoot

---------------------------------------------------------------------------
(* Claims about the authorization resolver, checked under SpecAuth and
   SpecAuthorize *)

NonBlank(v) == IsString(v) /\ Trim(v) # <<>>

\* what a credential passed to authorize resolves to in the current state
Now(ref, provided) == IF ref = Fn THEN provided ELSE ref

LastAuthorizeStored == lastAuthorize.called /\ ~lastAuthorize.threw

NewCall == Len(calls') = Len(calls) + 1

\* C1: with a token strategy such as Bearer and a token stored by authorize (a
\* literal or a provider), every call made while the token resolves to a non-blank
\* string is dispatched with Authorization = '<strategy> <token>', the token being
\* what the provider returns at the moment of that call.
C1_TokenHeaderResolvedAtCall ==
    [][(/\ NewCall
        /\ settings.authorization \notin {StrNone, StrCustom}
        /\ LastAuthorizeStored /\ Truthy(lastAuthorize.args.token)
        /\ NonBlank(Now(lastAuthorize.args.token, store.tok)))
       => LET c == calls'[Len(calls')]
          IN /\ "Authorization" \in DOMAIN c.headers
             /\ c.headers["Authorization"] =
                   settings.authorization \o <<" ">> \o Now(lastAuthorize.args.token, store.tok)]_vars

C1_Witness ==
    /\ Len(calls) = 2 /\ settings.authorization = StrBearer
    /\ LastAuthorizeStored /\ lastAuthorize.args.token = Fn
    /\ "Authorization" \in DOMAIN calls[1].headers
    /\ "Authorization" \in DOMAIN calls[2].headers
    /\ calls[1].headers["Authorization"] = StrBearer \o <<" ", "t">>
    /\ calls[2].headers["Authorization"] = StrBearer \o <<" ", "s">>

\* C2: with strategy Basic, after authorize({username, password}), every call is
\* dispatched with Authorization = 'Basic ' + base64('<username>:<password>'), the
\* username and the password being resolved at the time of that call.
C2_BasicHeaderResolvedAtCall ==
    [][(/\ NewCall
        /\ settings.authorization = StrBasic
        /\ LastAuthorizeStored /\ ~Truthy(lastAuthorize.args.token))
       => LET c == calls'[Len(calls')]
              u == Now(lastAuthorize.args.username, store.user)
              p == Now(lastAuthorize.args.password, store.pass)
          IN /\ "Authorization" \in DOMAIN c.headers
             /\ c.headers["Authorization"] =
                   StrBasic \o <<" ">> \o base64encode(u \o <<":">> \o p)
             /\ (u = <<"u">> /\ p = <<"p">>) =>
                   c.headers["Authorization"] = StrBasic \o <<" ", "d", "T", "p", "w">>
             /\ (u = <<>> /\ p = <<"b">>) =>
                   c.headers["Authorization"] = StrBasic \o <<" ", "O", "m", "I", "=">>]_vars

C2_Witness ==
    /\ Len(calls) = 2 /\ settings.authorization = StrBasic
    /\ LastAuthorizeStored /\ lastAuthorize.args.username = Fn
    /\ "Authorization" \in DOMAIN calls[1].headers
    /\ "Authorization" \in DOMAIN calls[2].headers
    /\ calls[1].headers["Authorization"] = StrBasic \o <<" ", "d", "T", "p", "w">>
    /\ calls[2].headers["Authorization"] = StrBasic \o <<" ", "O", "m", "I", "=">>

\* the stored token resolves to a string that is not empty once trimmed
StoredTokenNonBlank ==
    CASE token.kind = "undefined" -> FALSE
      [] token.kind = "literal" -> NonBlank(token.value)
      [] token.kind = "provider" -> NonBlank(store.tok)
      [] token.kind = "basic" -> TRUE

\* C3: when the strategy is not Custom, or no custom-auth record is stored,
\* isAuthorized() is true if and only if the strategy is not None and a token is
\* stored whose resolved value is non-empty after trimming; it is false whenever
\* the strategy is None, whatever token has been stored.
C3_IsAuthorizedIffValidToken ==
    (status = "ready" /\ ~(settings.authorization = StrCustom /\ customAuth.set)) =>
        /\ (isAuthorized = JTrue) <=>
               (settings.authorization # StrNone /\ StoredTokenNonBlank)
        /\ settings.authorization = StrNone => isAuthorized = JFalse

C3_Witness ==
    /\ settings.authorization = StrNone
    /\ token.kind = "literal" /\ token.value = <<"t">>
    /\ isAuthorized = JFalse
    /\ Len(calls) = 1 /\ "Authorization" \notin DOMAIN calls[1].headers

ArgsAccepted(a) ==
    /\ a.given
    /\ \/ Truthy(a.token)
       \/ /\ settings.authorization = StrBasic
          /\ Truthy(a.username) /\ Truthy(a.password)
       \/ /\ settings.authorization = StrCustom
          /\ a.headers.kind # "absent" /\ TypeOf(a.validate) = "function"

\* C6: authorize(args) fails synchronously unless args supplies a token, or the
\* strategy is Basic and both username and password are supplied, or the strategy
\* is Custom and both headers and a callable validate are supplied; for every
\* strategy value, recognized or not.
C6_AuthorizeFailsUnlessValidArgs ==
    lastAuthorize.called =>
        /\ lastAuthorize.threw <=> ~ArgsAccepted(lastAuthorize.args)
        /\ lastAuthorize.threw <=> thrown = "InvalidArgs"

C6_Witness ==
    /\ lastAuthorize.called /\ lastAuthorize.threw
    /\ settings.authorization = StrBearer
    /\ lastAuthorize.args.username = <<"u">> /\ lastAuthorize.args.password = <<"p">>
    /\ ~Truthy(lastAuthorize.args.token)
    /\ token = NoToken

---------------------------------------------------------------------------
(* Claims about the middleware / event pipeline, checked under SpecPipe *)

OnlyPassStages(c) == \A k \in DOMAIN c.chain : c.chain[k] = "pass"

NotOkResponse(c) == c.response.type = "response" /\ ~c.response.ok

RejectedWithResponse(c) ==
    /\ c.outcome # "resolved"
    /\ c.pc = "settled" =>
          (c.outcome = "rejected" /\ c.result = c.response
              /\ c.result.status = c.response.status /\ ~c.result.ok)

\* C4 as stated: for every transport response with ok=false and no transforming
\* middleware, the call rejects, never resolves, and the rejection value is that
\* same response with its status and ok=false.
C4_NotOkRejectsWithResponse ==
    \A i \in DOMAIN calls :
        (NotOkResponse(calls[i]) /\ OnlyPassStages(calls[i]))
            => RejectedWithResponse(calls[i])

\* C4 for the calls on which no notified event listener throws: for every transport
\* response with ok=false and no transforming middleware, the call rejects, never
\* resolves, and the rejection value is that same response.
C4_NotOkRejectsUnlessListenerThrows ==
    \A i \in DOMAIN calls :
        (/\ NotOkResponse(calls[i]) /\ OnlyPassStages(calls[i])
         /\ \A j \in DOMAIN calls[i].notified : calls[i].notified[j].listener # "throw")
            => RejectedWithResponse(calls[i])

C4_Witness ==
    \E i \in DOMAIN calls :
        /\ calls[i].response = Response(FALSE, 500)
        /\ calls[i].chain = <<"pass">>
        /\ calls[i].pc = "settled" /\ calls[i].outcome = "rejected"
        /\ calls[i].result = Response(FALSE, 500)
        /\ Len(calls[i].notified) = 1

\* C5: if a middleware stage throws or rejects, no later stage runs, no event
\* listener is notified for that call, and the call rejects with exactly the
\* error of that stage.
C5_ThrowingStageAbortsChain ==
    \A i \in DOMAIN calls :
        \A k \in DOMAIN calls[i].ran :
            calls[i].chain[k] = "throw" =>
                /\ Len(calls[i].ran) = k
                /\ calls[i].notified = <<>>
                /\ calls[i].pc = "settled" /\ calls[i].outcome = "rejected"
                /\ calls[i].result = Failure("middleware", k)

C5_Witness ==
    \E i \in DOMAIN calls :
        /\ calls[i].chain = <<"throw", "tag">>
        /\ calls[i].ran = <<1>>
        /\ calls[i].response = Response(FALSE, 500)
        /\ HasListeners(EventError) /\ HasListeners(NumToString(500))
        /\ calls[i].notified = <<>>
        /\ calls[i].outcome = "rejected"
        /\ calls[i].result = Failure("middleware", 1)

---------------------------------------------------------------------------
(* Claims about construction, checked under SpecUrl *)

HasScheme(r) == \E i \in 1..Len(r) : i + 2 <= Len(r) /\ SubSeq(r, i, i + 2) = SchemeSep

\* stored is given, less one trailing slash when given ends with one
GivenUpToOneSlash(stored, given) ==
    IF given # <<>> /\ given[Len(given)] = "/"
    THEN stored \o <<"/">> = given
    ELSE stored = given

\* C11: when the root names an explicit scheme other than https, construction fails
\* if secureOnly is true and succeeds, the scheme kept as given, if secureOnly is
\* false; when the root names no scheme, 'https://' is prepended whatever secureOnly
\* is; an explicit https root is accepted with no scheme added.
C11_SchemeHandling ==
    (status # "none" /\ IsString(settings.root)) =>
        LET r == settings.root
        IN /\ (NamesOtherScheme(r) /\ settings.secureOnly = JTrue)
                  => (status = "threw" /\ thrown = "MustUseHttps")
           /\ (NamesOtherScheme(r) /\ settings.secureOnly = JFalse)
                  => (status = "ready" /\ GivenUpToOneSlash(root, r))
           /\ ~HasScheme(r)
                  => (status = "ready" /\ GivenUpToOneSlash(root, Https \o SchemeSep \o r))
           /\ (HasScheme(r) /\ ~NamesOtherScheme(r))
                  => (status = "ready" /\ GivenUpToOneSlash(root, r)
                         /\ StartsWith(r, Https \o SchemeSep))

C11_Witness ==
    /\ status = "ready" /\ settings.secureOnly = JFalse
    /\ settings.root = Http \o SchemeSep \o <<"a">>
    /\ root = Http \o SchemeSep \o <<"a">>

---------------------------------------------------------------------------
(* Claims about the verb helpers, checked under SpecVerbs *)

MethodOfVerb(verb) ==
    CASE verb = "get" -> StrGET
      [] verb = "post" -> Method.post
      [] verb = "put" -> Method.put
      [] verb = "patch" -> Method.patch
      [] verb = "delete" -> Method.delete
      [] verb = "head" -> Method.head

\* C12: each verb helper dispatches one request to buildUrl(path) whose method is the
\* helper's own verb, for any per-call options (including an options object used by
\* an earlier call of another verb) and any configured default method.
C12_MethodIsTheVerb ==
    \A i \in DOMAIN calls :
        /\ calls[i].method = MethodOfVerb(calls[i].verb)
        /\ calls[i].url = buildUrl(calls[i].path)

C12_Witness ==
    /\ Len(calls) = 2
    /\ settings.defaultOptions.method = StrGET
    /\ calls[1].verb = "post" /\ calls[1].method = Method.post
    /\ calls[2].verb = "get" /\ calls[2].method = Method.post
    /\ calls[2].body = <<"{", "}">>

---------------------------------------------------------------------------
(* Claims about custom authorization, checked under SpecCustom *)

\* target with every entry of added laid over it
Overlaid(result, target, added) ==
    /\ DOMAIN result = (DOMAIN target) \cup (DOMAIN added)
    /\ \A k \in DOMAIN added : result[k] = added[k]
    /\ \A k \in (DOMAIN target) \ (DOMAIN added) : result[k] = target[k]

\* the headers of the stored custom-auth record as they resolve now
RecordHeadersNow ==
    IF customAuth.headers.kind = "map" THEN customAuth.headers.map ELSE store.authHdrs

\* C13: under strategy Custom with a custom-auth record stored, isAuthorized() is
\* what validate answers at that moment, and a call's dispatched headers include
\* the record's headers, resolved at that call, exactly when validate answers true
\* at that call; when it answers false no custom header and no Authorization header
\* is added.
C13_CustomAuthValidatedPerCall ==
    [][(settings.authorization = StrCustom /\ customAuth.set) =>
          /\ isAuthorized = store.valid
          /\ NewCall =>
                LET c == calls'[Len(calls')]
                IN IF store.valid = JTrue
                   THEN Overlaid(c.headers, MergedHeaders(c.options), RecordHeadersNow)
                   ELSE c.headers = MergedHeaders(c.options)]_vars

C13_Witness ==
    /\ Len(calls) = 2 /\ settings.authorization = StrCustom /\ customAuth.set
    /\ customAuth.headers.kind = "fresh"
    /\ token.kind = "literal"
    /\ calls[1].options = NoOptions /\ calls[2].options = NoOptions
    /\ calls[1].headers = MergeHeaders(DefaultHeaders, [k \in {"X-Token"} |-> <<"b">>])
    /\ store.valid = JFalse
    /\ calls[2].headers = DefaultHeaders

---------------------------------------------------------------------------
(* Claims about the option merger, checked under SpecAuth *)

\* the header map the instance defaults yield now
DefaultHeadersNow ==
    IF settings.defaultOptions.headers.kind = "map"
    THEN settings.defaultOptions.headers.map
    ELSE store.hdrs

\* C14: no call changes the instance defaults: across every call the default options
\* and the header map they yield, literal or provided, stay what they were; no
\* Authorization and no per-call header is written into them.
C14_CallsLeaveDefaultsAlone ==
    [][NewCall => (settings' = settings /\ DefaultHeadersNow' = DefaultHeadersNow)]_vars

C14_Witness ==
    /\ Len(calls) = 1 /\ calls[1].shared
    /\ settings.defaultOptions.headers.kind = "shared"
    /\ settings.authorization = StrBearer
    /\ "Authorization" \in DOMAIN store.hdrs
    /\ store.hdrs = calls[1].headers

\* C15: the dispatched headers of a call are the default headers, literal or resolved
\* from the provider, overlaid key by key with the per-call overrides: every default
\* key is kept unless overridden and every override is present (the Authorization
\* entry aside, which the authorization step may set afterwards).
C15_HeadersAreDefaultsOverlaid ==
    [][NewCall =>
          LET c == calls'[Len(calls')]
              wanted == MergeHeaders(DefaultHeadersNow, c.options.headers.map)
          IN \A k \in DOMAIN wanted :
                /\ k \in DOMAIN c.headers
                /\ k # "Authorization" => c.headers[k] = wanted[k]]_vars

C15_Witness ==
    /\ Len(calls) = 1
    /\ settings.defaultOptions.headers.kind = "shared"
    /\ calls[1].options.headers.kind = "map"
    /\ "Content-Type" \in DOMAIN store.hdrs
    /\ "Content-Type" \notin DOMAIN calls[1].headers

---------------------------------------------------------------------------
(* Claims about the transport, the events and the settling of a call, checked
   under SpecPipe *)

ListenersOf(e) ==
    IF e \in DOMAIN listeners
    THEN [j \in 1..Len(listeners[e]) |-> [event |-> e, listener |-> listeners[e][j]]]
    ELSE <<>>

\* the notifications a response of status s calls for, in order
NotificationsFor(s) ==
    ListenersOf(NumToString(s))
        \o (IF s \in 200..299 THEN ListenersOf(EventSuccess) ELSE ListenersOf(EventError))

EventsStep(i) == calls[i].pc = "events" /\ calls'[i].pc # "events"

\* C16: after the middleware chain, for a response with status s, the listeners
\* registered under the string form of s are notified; independently 'success'
\* listeners are notified iff s is in the 2xx range and 'error' listeners iff it is
\* not; an event without listeners is skipped and does not make the call fail; the
\* status-code notification comes before the success/error one, and both come
\* before the call settles.
C16_EventsByStatus ==
    [][\A i \in DOMAIN calls :
          /\ EventsStep(i) =>
                /\ calls'[i].notified = NotificationsFor(calls[i].value.status)
                /\ calls'[i].notified = <<>> => calls'[i].pc = "classify"
          /\ calls'[i].notified # calls[i].notified =>
                (calls[i].pc = "events" /\ calls[i].outcome = "pending")]_vars

C16_Witness ==
    \E i \in DOMAIN calls :
        /\ calls[i].value.status = 500
        /\ Len(calls[i].notified) = 1
        /\ calls[i].notified[1] = [event |-> NumToString(500), listener |-> "throw"]
        /\ HasListeners(EventError)
        /\ calls[i].pc = "settled"

\* C17: when the transport fails, the call rejects with exactly the error the
\* transport raised, and for that call no middleware stage runs and no event
\* listener is notified.
C17_TransportFailureAsIs ==
    \A i \in DOMAIN calls :
        (calls[i].pc # "fetch" /\ calls[i].response.type = "none") =>
            /\ calls[i].pc = "settled" /\ calls[i].outcome = "rejected"
            /\ calls[i].result = Failure("transport", 0)
            /\ calls[i].ran = <<>> /\ calls[i].notified = <<>>

C17_Witness ==
    \E i \in DOMAIN calls :
        /\ calls[i].pc = "settled" /\ calls[i].result = Failure("transport", 0)
        /\ middlewares # <<>> /\ HasListeners(EventError)
        /\ calls[i].ran = <<>> /\ calls[i].notified = <<>>

\* C18: each call invokes the transport at most once and settles at most once,
\* resolved or rejected and never both; a failed transport call or an unsuccessful
\* response is never retried, and once reported the outcome never changes.
C18_SettlesOnceNoRetry ==
    [][\A i \in DOMAIN calls :
          /\ i \in DOMAIN calls'
          /\ calls[i].pc # "fetch" => calls'[i].pc # "fetch"
          /\ calls[i].pc = "settled" => calls'[i] = calls[i]
          /\ (calls'[i].pc = "settled") <=> (calls'[i].outcome \in {"resolved", "rejected"})
          /\ calls'[i].pc # "settled" => calls'[i].outcome = "pending"]_vars

C18_Witness ==
    \E i \in DOMAIN calls :
        /\ calls[i].pc = "settled" /\ calls[i].outcome = "rejected"
        /\ calls[i].response = Response(FALSE, 500)
        /\ calls[i].result = Response(FALSE, 500)
        /\ Len(middlewares) > Len(calls[i].chain)

---------------------------------------------------------------------------
(* Claims about the sanitized fields, checked under SpecUrl *)

NoSlashIn(s) == \A i \in 1..Len(s) : s[i] # "/"

\* C19: after every successful construction the stored root has a scheme and does
\* not end with a slash, and stage, prefix and version, when set, contain no slash;
\* for every root construction accepts, including roots ending with more than one
\* slash and roots with an empty host or an empty scheme.
C19_SanitizedFields ==
    status = "ready" =>
        /\ HasScheme(root)
        /\ root[Len(root)] # "/"
        /\ \A seg \in {stage, prefix, version} : IsString(seg) => NoSlashIn(seg)

C19_Witness ==
    /\ status = "ready"
    /\ settings.root = Https \o SchemeSep \o <<"a", "/", "/">>
    /\ root = Https \o SchemeSep \o <<"a", "/">>
    /\ settings.prefix = <<"/">> \o ApiSeg /\ prefix = ApiSeg

---------------------------------------------------------------------------
(* Claims about the order of the middleware stages, checked under SpecPipe *)

\* the stages of chain that transform what they receive, in registration order
RECURSIVE TagsUpTo(_, _)
TagsUpTo(chain, n) ==
    IF n = 0 THEN <<>>
    ELSE TagsUpTo(chain, n - 1) \o (IF chain[n] = "tag" THEN <<n>> ELSE <<>>)

NoStageThrows(c) == \A k \in DOMAIN c.chain : c.chain[k] # "throw"

\* the stages ran in registration order, each on the output of the one before it
RanInOrder(c) ==
    /\ Len(c.ran) <= Len(c.chain)
    /\ \A k \in DOMAIN c.ran : c.ran[k] = k
    /\ c.pc \in {"mw", "events", "classify"} =>
          c.value = [c.response EXCEPT !.via = TagsUpTo(c.chain, Len(c.ran))]
    /\ (c.pc \in {"events", "classify"} \/ c.notified # <<>>) => Len(c.ran) = Len(c.chain)

\* C20: middleware stages run strictly in registration order, one at a time: the
\* first receives the raw transport response, each later stage the output of the
\* previous one, every stage completes before any event listener is notified, and
\* the call is classified and settled with the output of the last stage.
C20_StagesInOrderThenSettle ==
    \A i \in DOMAIN calls :
        (calls[i].response.type = "response" /\ NoStageThrows(calls[i])) =>
            /\ RanInOrder(calls[i])
            /\ calls[i].pc = "settled" =>
                  LET last == [calls[i].response EXCEPT
                                  !.via = TagsUpTo(calls[i].chain, Len(calls[i].chain))]
                  IN /\ calls[i].result = last
                     /\ calls[i].outcome = IF last.ok THEN "resolved" ELSE "rejected"

C20_Witness ==
    \E i \in DOMAIN calls :
        /\ calls[i].chain = <<"tag", "tag">>
        /\ calls[i].pc = "settled"
        /\ Len(calls[i].notified) = 1 /\ calls[i].notified[1].listener = "throw"
        /\ calls[i].value.via = <<1, 2>>
        /\ calls[i].result = Failure("listener", 1)

---------------------------------------------------------------------------
(* Claims about the outcome of a call, checked under SpecPipe *)

\* the whole middleware chain of the call ran and handed on a response
ChainHandedOn(c) ==
    /\ c.response.type = "response"
    /\ Len(c.ran) = Len(c.chain)
    /\ NoStageThrows(c)

\* C21: event emission does not alter the outcome of a call: whatever listeners are
\* registered and whatever they do, the call settles with the value the middleware
\* chain handed on and with the classification of that value, as it would with no
\* listener registered.
C21_ListenersLeaveOutcomeAlone ==
    \A i \in DOMAIN calls :
        (calls[i].pc = "settled" /\ ChainHandedOn(calls[i])) =>
            /\ calls[i].result = calls[i].value
            /\ calls[i].outcome = IF calls[i].value.ok THEN "resolved" ELSE "rejected"

C21_Witness ==
    \E i \in DOMAIN calls :
        /\ calls[i].pc = "settled" /\ calls[i].chain = <<>>
        /\ calls[i].response = Response(TRUE, 200)
        /\ calls[i].notified = <<[event |-> EventSuccess, listener |-> "throw"]>>
        /\ calls[i].outcome = "rejected"
        /\ calls[i].result = Failure("listener", 1)

\* C22: for every response the transport can deliver, ok and status being separate
\* fields, the call resolves exactly when the status is in the success range and
\* rejects otherwise, so the outcome agrees with the success/error event category
\* emitted for the same response.
C22_OutcomeFollowsStatus ==
    \A i \in DOMAIN calls :
        (calls[i].pc = "settled" /\ calls[i].result.type = "response") =>
            /\ (calls[i].outcome = "resolved") <=> (calls[i].result.status \in 200..299)
            /\ \A j \in DOMAIN calls[i].notified :
                  /\ calls[i].notified[j].event = EventSuccess
                        => calls[i].outcome = "resolved"
                  /\ calls[i].notified[j].event = EventError
                        => calls[i].outcome = "rejected"

C22_Witness ==
    \E i \in DOMAIN calls :
        /\ calls[i].pc = "settled"
        /\ calls[i].result = Response(FALSE, 200)
        /\ calls[i].notified = <<[event |-> EventSuccess, listener |-> "ok"]>>
        /\ calls[i].outcome = "rejected"


---------------------------------------------------------------------------
(* Claims about the authorization state as a whole, checked under SpecCustom *)

\* the last successful authorize call stored a token
LastStoredToken == LastAuthorizeStored /\ Truthy(lastAuthorize.args.token)

\* the last successful authorize call stored a custom-auth record
LastStoredRecord == LastAuthorizeStored /\ ~Truthy(lastAuthorize.args.token)

\* C23: the authorization state is exactly one of absent, a token holder or a
\* custom-auth record, and a successful authorize replaces it: never a token and a
\* record together, and once the last successful authorize stored a token,
\* isAuthorized() is the validity of that token and a call carries
\* Authorization: <strategy> <token> and no header of an earlier record; once it
\* stored a record, isAuthorized() is what validate answers.
C23_LastAuthorizeAlone ==
    [][/\ ~(token.kind # "undefined" /\ customAuth.set)
       /\ LastStoredToken =>
             /\ token = TokenOf(lastAuthorize.args)
             /\ isAuthorized = hasValidToken
             /\ NewCall =>
                   LET c == calls'[Len(calls')]
                   IN Overlaid(c.headers, MergedHeaders(c.options),
                               IF Truthy(hasValidToken)
                               THEN [k \in {"Authorization"} |-> AuthorizationValue]
                               ELSE NoHeaders)
       /\ LastStoredRecord =>
             /\ customAuth = [set |-> TRUE, headers |-> lastAuthorize.args.headers]
             /\ isAuthorized = store.valid]_vars

C23_Witness ==
    /\ settings.authorization = StrCustom
    /\ LastStoredToken /\ lastAuthorize.args.token = <<"t">>
    /\ token.kind = "literal" /\ token.value = <<"t">>
    /\ customAuth.set /\ customAuth.headers.kind = "map"
    /\ store.valid = JTrue
    /\ Len(calls) = 1 /\ calls[1].options = NoOptions
    /\ "Authorization" \notin DOMAIN calls[1].headers
    /\ calls[1].headers = MergeHeaders(DefaultHeaders, XAuthHeaders)


---------------------------------------------------------------------------
(* Claims about calls in flight and about the Authorization header, checked under
   SpecAuth *)

\* the request call i handed to the transport, as the transport finds it now: the
\* headers are an object, and a call that handed over the provider's own object has
\* whatever that object holds now
RequestNow(i) ==
    [url |-> calls[i].url, method |-> calls[i].method, body |-> calls[i].body,
     headers |-> IF calls[i].shared THEN store.hdrs ELSE calls[i].headers]

ConfiguredDefaultHeaders ==
    IF settings.defaultOptions.headers.kind = "map"
    THEN settings.defaultOptions.headers.map
    ELSE DefaultHeaders

\* C25: a request carries an Authorization header only if isAuthorized() was true
\* when the call was made, unless the configured default headers or the per-call
\* headers supply one: once the token is blank, no later request carries the
\* credential of an earlier authorized call.
C25_AuthorizationOnlyWhenAuthorized ==
    [][NewCall =>
          LET c == calls'[Len(calls')]
          IN ("Authorization" \in DOMAIN c.headers) =>
                \/ Truthy(isAuthorized)
                \/ "Authorization" \in DOMAIN ConfiguredDefaultHeaders
                \/ "Authorization" \in DOMAIN c.options.headers.map]_vars

C25_Witness ==
    /\ Len(calls) = 2
    /\ token.kind = "provider" /\ store.tok = <<" ">>
    /\ isAuthorized = JFalse
    /\ calls[2].options = NoOptions
    /\ "Authorization" \in DOMAIN calls[2].headers
    /\ calls[2].headers["Authorization"] = StrBearer \o <<" ", "t">>

---------------------------------------------------------------------------
(* Claim about a failing authorize, checked under SpecAuthorize *)

\* the step is an authorize call that failed
AuthorizeFailed == lastAuthorize' # lastAuthorize /\ lastAuthorize'.threw

\* C26: an authorize call that fails leaves the authorization state unchanged: the
\* stored token and the stored custom-auth record are the same after it as before,
\* and so are isAuthorized() and everything else the headers of a request are
\* built from (the settings and what the providers return).
C26_FailedAuthorizeChangesNothing ==
    [][AuthorizeFailed =>
          /\ token' = token
          /\ customAuth' = customAuth
          /\ isAuthorized' = isAuthorized
          /\ settings' = settings /\ store' = store]_vars

C26_Witness ==
    /\ lastAuthorize.called /\ lastAuthorize.threw
    /\ settings.authorization = StrCustom
    /\ HeadersGiven(lastAuthorize.args.headers) /\ lastAuthorize.args.validate = JTrue
    /\ ~Truthy(lastAuthorize.args.token)
    /\ token.kind = "literal" /\ token.value = <<"t">>
    /\ ~customAuth.set

---------------------------------------------------------------------------
(* Claim about termination, checked under SpecSettle *)

\* C27: every call eventually settles, resolved or rejected, provided the transport
\* settles and every middleware stage settles; a call on which resolving the
\* credentials, a middleware stage or an event listener throws ends rejected and
\* is never left pending.
C27_EveryCallSettles ==
    \A i \in 1..MaxCalls :
        (i \in DOMAIN calls) ~>
            (/\ i \in DOMAIN calls
             /\ calls[i].pc = "settled"
             /\ calls[i].outcome \in {"resolved", "rejected"})

C27_Witness ==
    /\ Len(calls) = 1
    /\ token.kind = "provider" /\ store.tok = Raises
    /\ calls[1].pc = "settled" /\ calls[1].outcome = "rejected"
    /\ calls[1].result = Failure("credentials", 0)

====
